---- MODULE Spec2Model ----
(***************************************************************************)
(* CheckoutForm (live-coding/src/components/blocks/CheckoutForm/index.tsx) *)
(* and the styled primitives it renders (index.styled).                    *)
(*                                                                         *)
(* Text values are sequences of one-character strings, so that formatting  *)
(* and parsing are computed character by character.  JavaScript null in a  *)
(* text field is the one-element sequence null, which no text equals.      *)
(* Card brands are TLA+ strings; the brand null is the string "null".      *)
(***************************************************************************)
EXTENDS Integers, Sequences, FiniteSets, TLC

\* ------------------------------------------------------------------------
\* Characters and text helpers
\* ------------------------------------------------------------------------
null == <<"null">>

nullType == "null"

Digits == {"0", "1", "2", "3", "4", "5", "6", "7", "8", "9"}

DigitVal(c) ==
    CASE c = "0" -> 0 [] c = "1" -> 1 [] c = "2" -> 2 [] c = "3" -> 3
      [] c = "4" -> 4 [] c = "5" -> 5 [] c = "6" -> 6 [] c = "7" -> 7
      [] c = "8" -> 8 [] c = "9" -> 9

IsSpace(c) == c = " "

AllDigits(s) == Len(s) > 0 /\ \A i \in 1..Len(s) : s[i] \in Digits

Filter(s, keep) == SelectSeq(s, LAMBDA c : c \in keep)

Remove(s, drop) == SelectSeq(s, LAMBDA c : c \notin drop)

\* s.replace(/\D/g, '')
StripNonDigits(s) == Filter(s, Digits)

\* String.prototype.trim
RECURSIVE TrimLeft(_)
TrimLeft(s) ==
    IF s # <<>> /\ IsSpace(Head(s)) THEN TrimLeft(Tail(s)) ELSE s

RECURSIVE TrimRight(_)
TrimRight(s) ==
    IF s # <<>> /\ IsSpace(s[Len(s)]) THEN TrimRight(SubSeq(s, 1, Len(s) - 1)) ELSE s

Trim(s) == TrimRight(TrimLeft(s))

StartsWith(s, p) == Len(s) >= Len(p) /\ SubSeq(s, 1, Len(p)) = p

\* Length of the longest prefix of s made of characters of set cs, at most max
RECURSIVE Span(_, _, _)
Span(s, cs, max) ==
    IF s = <<>> \/ max = 0 \/ Head(s) \notin cs THEN 0
    ELSE 1 + Span(Tail(s), cs, max - 1)

\* Length of the longest prefix of s made of characters outside set cs
RECURSIVE SpanNot(_, _)
SpanNot(s, cs) ==
    IF s = <<>> \/ Head(s) \in cs THEN 0
    ELSE 1 + SpanNot(Tail(s), cs)

Drop(s, n) == SubSeq(s, n + 1, Len(s))

Take(s, n) == SubSeq(s, 1, IF n < Len(s) THEN n ELSE Len(s))

\* First index of character c in s, 0 when absent
RECURSIVE IndexOf(_, _)
IndexOf(s, c) ==
    IF s = <<>> THEN 0
    ELSE IF Head(s) = c THEN 1
    ELSE LET r == IndexOf(Tail(s), c) IN IF r = 0 THEN 0 ELSE r + 1

\* Value of a digit sequence
RECURSIVE DecVal(_)
DecVal(s) ==
    IF s = <<>> THEN 0
    ELSE 10 * DecVal(SubSeq(s, 1, Len(s) - 1)) + DigitVal(s[Len(s)])

\* JavaScript numbers that may be NaN
NaN == [nan |-> TRUE, val |-> 0]

Num(v) == [nan |-> FALSE, val |-> v]

JsGt(a, b) == ~a.nan /\ ~b.nan /\ a.val > b.val

JsLt(a, b) == ~a.nan /\ ~b.nan /\ a.val < b.val

isNaN(a) == a.nan

\* parseInt(s, 10): optional sign, then the leading digits; NaN when there are none
parseInt(s) ==
    LET t == TrimLeft(s)
        neg == t # <<>> /\ Head(t) = "-"
        u == IF t # <<>> /\ Head(t) \in {"-", "+"} THEN Tail(t) ELSE t
        n == Span(u, Digits, Len(u))
    IN IF n = 0 THEN NaN
       ELSE Num((IF neg THEN -1 ELSE 1) * DecVal(SubSeq(u, 1, n)))

\* Decimal text of a natural number
RECURSIVE ToText(_)
ToText(n) ==
    LET d == <<"0", "1", "2", "3", "4", "5", "6", "7", "8", "9">>
    IN IF n < 10 THEN <<d[n + 1]>> ELSE ToText(n \div 10) \o <<d[(n % 10) + 1]>>

\* ------------------------------------------------------------------------
\* Card Utility (creditcardutils), as the component imports and calls it
\* ------------------------------------------------------------------------
\* The card table, in matching order.  pattern is the set of number prefixes
\* the card's regular expression accepts; groups are the sizes of the digit
\* groups its format produces.
cards ==
    <<
      [type |-> "visaelectron", pattern |-> {<<"4", "0", "2", "6">>, <<"4", "1", "7", "5", "0", "0">>, <<"4", "4", "0", "5">>, <<"4", "5", "0", "8">>, <<"4", "8", "4", "4">>, <<"4", "9", "1", "3">>, <<"4", "9", "1", "7">>},
       groups |-> <<4, 4, 4, 4>>, length |-> {16}, cvcLength |-> {3}, luhn |-> TRUE],
      [type |-> "maestro", pattern |-> {<<"5", "0", "1", "8">>, <<"5", "0", "2">>, <<"5", "0", "3">>, <<"5", "6">>, <<"5", "8">>, <<"6", "3", "9">>, <<"6", "7">>},
       groups |-> <<4, 4, 4, 4, 4>>, length |-> 12..19, cvcLength |-> {3}, luhn |-> TRUE],
      [type |-> "forbrugsforeningen", pattern |-> {<<"6", "0", "0">>},
       groups |-> <<4, 4, 4, 4>>, length |-> {16}, cvcLength |-> {3}, luhn |-> TRUE],
      [type |-> "dankort", pattern |-> {<<"5", "0", "1", "9">>},
       groups |-> <<4, 4, 4, 4>>, length |-> {16}, cvcLength |-> {3}, luhn |-> TRUE],
      [type |-> "visa", pattern |-> {<<"4">>},
       groups |-> <<4, 4, 4, 4>>, length |-> {13, 16}, cvcLength |-> {3}, luhn |-> TRUE],
      [type |-> "mastercard", pattern |-> {<<"5", "1">>, <<"5", "2">>, <<"5", "3">>, <<"5", "4">>, <<"5", "5">>, <<"2", "2">>, <<"2", "3">>, <<"2", "4">>, <<"2", "5">>, <<"2", "6">>, <<"2", "7">>},
       groups |-> <<4, 4, 4, 4>>, length |-> {16}, cvcLength |-> {3}, luhn |-> TRUE],
      [type |-> "amex", pattern |-> {<<"3", "4">>, <<"3", "7">>},
       groups |-> <<4, 6, 5>>, length |-> {15}, cvcLength |-> {3, 4}, luhn |-> TRUE],
      [type |-> "dinersclub", pattern |-> {<<"3", "0">>, <<"3", "6">>, <<"3", "8">>, <<"3", "9">>},
       groups |-> <<4, 6, 4>>, length |-> {14}, cvcLength |-> {3}, luhn |-> TRUE],
      [type |-> "discover", pattern |-> {<<"6", "0">>, <<"6", "4">>, <<"6", "5">>, <<"6", "2", "2">>},
       groups |-> <<4, 4, 4, 4>>, length |-> {16}, cvcLength |-> {3}, luhn |-> TRUE],
      [type |-> "unionpay", pattern |-> {<<"6", "2">>, <<"8", "8">>},
       groups |-> <<4, 4, 4, 4, 4>>, length |-> 16..19, cvcLength |-> {3}, luhn |-> FALSE],
      [type |-> "jcb", pattern |-> {<<"3", "5">>},
       groups |-> <<4, 4, 4, 4>>, length |-> {16}, cvcLength |-> {3}, luhn |-> TRUE]
    >>

NoCard == [type |-> nullType, pattern |-> {}, groups |-> <<>>, length |-> {}, cvcLength |-> {}, luhn |-> FALSE]

\* cardFromNumber: the first card whose pattern matches the digits of num
cardFromNumber(num) ==
    LET d == StripNonDigits(num)
        hits == {i \in 1..Len(cards) : \E p \in cards[i].pattern : StartsWith(d, p)}
    IN IF hits = {} THEN NoCard
       ELSE cards[CHOOSE i \in hits : \A j \in hits : i <= j]

\* cardFromType: the card of a brand name
cardFromType(type) ==
    LET hits == {i \in 1..Len(cards) : cards[i].type = type}
    IN IF hits = {} THEN NoCard ELSE cards[CHOOSE i \in hits : TRUE]

\* luhnCheck: digits are doubled alternately from the right
RECURSIVE luhnSum(_, _, _)
luhnSum(d, i, odd) ==
    IF i = 0 THEN 0
    ELSE LET v == DigitVal(d[i])
             w == IF odd THEN v ELSE (IF 2 * v > 9 THEN 2 * v - 9 ELSE 2 * v)
         IN w + luhnSum(d, i - 1, ~odd)

luhnCheck(d) == luhnSum(d, Len(d), TRUE) % 10 = 0

Max(S) == CHOOSE x \in S : \A y \in S : y <= x

\* Join the digits d into groups of the given sizes, separated by one space
RECURSIVE Group(_, _)
Group(d, groups) ==
    IF d = <<>> \/ groups = <<>> THEN <<>>
    ELSE LET g == Take(d, Head(groups))
             rest == Group(Drop(d, Len(g)), Tail(groups))
         IN IF rest = <<>> THEN g ELSE g \o <<" ">> \o rest

\* formatCardNumber(num): digits only, cut to the card's longest length and grouped
formatCardNumber(num) ==
    LET d == StripNonDigits(num)
        card == cardFromNumber(d)
    IN IF card = NoCard THEN d
       ELSE Group(Take(d, Max(card.length)), card.groups)

\* parseCardType(num): the brand of the matching card, or null
parseCardType(num) ==
    IF num = <<>> THEN nullType ELSE cardFromNumber(num).type

\* validateCardNumber(num): digits with a known brand, an allowed length and a Luhn sum
validateCardNumber(num) ==
    LET n == Remove(num, {" ", "-"})
        card == cardFromNumber(n)
    IN /\ AllDigits(n)
       /\ card # NoCard
       /\ Len(n) \in card.length
       /\ (card.luhn = FALSE \/ luhnCheck(n))

\* validateCardCVC(cvc, type): digits whose count the brand allows (3 or 4 without a brand)
validateCardCVC(cvc, type) ==
    LET c == Trim(cvc)
        card == cardFromType(type)
    IN /\ AllDigits(c)
       /\ IF card # NoCard THEN Len(c) \in card.cvcLength
          ELSE Len(c) >= 3 /\ Len(c) <= 4

\* formatCardExpiry(expiry): /^\D*(\d{1,2})(\D+)?(\d{1,4})?/ rebuilt as "MM / YY"
formatCardExpiry(expiry) ==
    LET lead == SpanNot(expiry, Digits)
        a == Drop(expiry, lead)
        nmon == Span(a, Digits, 2)
        mon0 == Take(a, nmon)
        b == Drop(a, nmon)
        nsep == SpanNot(b, Digits)
        sep0 == Take(b, nsep)
        c == Drop(b, nsep)
        \* the year group follows a separator, or the month's two digits directly
        year == Take(c, Span(c, Digits, 4))
    IN IF nmon = 0 THEN <<>>
       ELSE IF Len(year) > 0 THEN mon0 \o <<" ", "/", " ">> \o year
       ELSE IF sep0 = <<" ", "/">> THEN Take(mon0, 1)
       ELSE IF Len(mon0) = 2 \/ Len(sep0) > 0 THEN mon0 \o <<" ", "/", " ">>
       ELSE IF Len(mon0) = 1 /\ mon0 \notin {<<"0">>, <<"1">>}
            THEN <<"0">> \o mon0 \o <<" ", "/", " ">>
       ELSE mon0

\* parseCardExpiry(value, fullYear): {month, year}; a two-digit year takes the
\* century of the current year
parseCardExpiry(value, fullYear) ==
    LET v == Remove(value, {" "})
        i == IndexOf(v, "/")
        month == IF i = 0 THEN v ELSE SubSeq(v, 1, i - 1)
        rest == IF i = 0 THEN <<>> ELSE Drop(v, i)
        j == IndexOf(rest, "/")
        year0 == IF j = 0 THEN rest ELSE SubSeq(rest, 1, j - 1)
        year == IF Len(year0) = 2 /\ AllDigits(year0)
                THEN Take(ToText(fullYear), 2) \o year0 ELSE year0
    IN [month |-> parseInt(month), year |-> parseInt(year)]

\* ------------------------------------------------------------------------
\* Schema (Joi rule set declared by the component)
\* ------------------------------------------------------------------------
Fields == {"email", "card_number", "card_expire", "cvv"}

\* Joi string().email({tlds: {allow: false}}): one "@", a local part, and a
\* domain of at least two non-empty dot-separated segments; any TLD is accepted
isEmail(s) ==
    LET at == IndexOf(s, "@")
        local == SubSeq(s, 1, at - 1)
        domain == Drop(s, at)
    IN /\ at > 1
       /\ IndexOf(domain, "@") = 0
       /\ \A i \in 1..Len(s) : ~IsSpace(s[i])
       /\ Len(domain) >= 3
       /\ IndexOf(domain, ".") > 1
       /\ domain[Len(domain)] # "."
       /\ \A i \in 1..(Len(domain) - 1) : ~(domain[i] = "." /\ domain[i + 1] = ".")

\* Default Joi message of string.base, which the schema does not override
MustBeString(field) == "\"" \o field \o "\" must be a string"

\* Joi.string()...required(): a null value is not a string, an empty string is
\* "string.empty", and only then are the rules run, every failure being kept
JoiString(field, value, ruleErrors) ==
    IF value = null THEN <<MustBeString(field)>>
    ELSE IF value = <<>> THEN <<"Required">>
    ELSE ruleErrors

emailRules(value) ==
    IF ~isEmail(value) THEN <<"Must be a valid email">> ELSE <<>>

\* card_number custom predicate testing the brand before the number
card_numberCustom_brandFirst(value, card_type) ==
    IF value # <<>>
    THEN IF card_type = nullType THEN <<"Must be a visa or master">>
         ELSE IF ~validateCardNumber(value) THEN <<"Must be a valid card">>
         ELSE <<>>
    ELSE <<>>

\* card_number custom predicate; card_type is models.card_type of the render
\* that declared the schema
card_numberCustom(value, card_type) ==
    IF value # <<>>
    THEN IF ~validateCardNumber(value) THEN <<"Must be a valid card">>
         ELSE IF card_type = nullType THEN <<"Must be a visa or master">>
         ELSE <<>>
    ELSE <<>>

\* card_expire custom predicate testing the year before the month
card_expireCustom_yearFirst(value, date) ==
    IF value # <<>>
    THEN LET my == parseCardExpiry(value, date.year)
         IN IF isNaN(my.year) \/ JsLt(my.year, Num(date.year))
            THEN <<"Invalid expire year">>
            ELSE IF JsGt(my.month, Num(12)) \/ JsLt(my.month, Num(date.month))
            THEN <<"Invalid expire month">>
            ELSE <<>>
    ELSE <<>>

\* card_expire custom predicate; date is what new Date() gives:
\* date.month is getMonth() + 1 and date.year is getFullYear()
card_expireCustom(value, date) ==
    IF value # <<>>
    THEN LET my == parseCardExpiry(value, date.year)
         IN IF JsGt(my.month, Num(12)) \/ JsLt(my.month, Num(date.month))
            THEN <<"Invalid expire month">>
            ELSE IF isNaN(my.year) \/ JsLt(my.year, Num(date.year))
            THEN <<"Invalid expire year">>
            ELSE <<>>
    ELSE <<>>

cvvCustom(value, card_type) ==
    IF value # <<>>
    THEN IF ~validateCardCVC(value, card_type) THEN <<"Invalid cvc">> ELSE <<>>
    ELSE <<>>

cvvLength == 3

\* cvv rule chain stopping at its first failing rule
cvvRules_firstFailureOnly(value, card_type) ==
    IF cvvCustom(value, card_type) # <<>> THEN cvvCustom(value, card_type)
    ELSE IF Len(value) # cvvLength THEN <<"Maximum 3 digits">> ELSE <<>>

\* cvv rule chain: custom(...) then length(3)
cvvRules(value, card_type) ==
    cvvCustom(value, card_type)
      \o (IF Len(value) # cvvLength THEN <<"Maximum 3 digits">> ELSE <<>>)

\* The schema as declared in one render: card_type is the models.card_type the
\* custom predicates close over, date the clock they read
schema(data, card_type, date) ==
    [email |-> JoiString("email", data.email, emailRules(data.email)),
     card_number |-> JoiString("card_number", data.card_number,
                               card_numberCustom(data.card_number, card_type)),
     card_expire |-> JoiString("card_expire", data.card_expire,
                               card_expireCustom(data.card_expire, date)),
     cvv |-> JoiString("cvv", data.cvv, cvvRules(data.cvv, card_type))]

\* ------------------------------------------------------------------------
\* Component state
\* ------------------------------------------------------------------------
VARIABLES
    models,         \* useModels: FieldValues
    state,          \* useValidator: data, errors, auto_invalid
    loading,        \* the loading prop
    effectPending,  \* models changed and the sync effect has not run yet
    rendered,       \* output of the last render
    event,          \* the DOM event the last step handled, and what its handler did
    lastRaw,        \* e.target.value of the last card-number change, null before any
    now             \* the calendar month and year new Date() reports

vars == <<models, state, loading, effectPending, rendered, event, lastRaw, now>>

defaultState ==
    [email |-> null, card_number |-> null, card_expire |-> null, cvv |-> null,
     card_type |-> nullType]

NoErrors == [f \in Fields |-> <<>>]

\* useValidator before any validation has run
initialValidatorState ==
    [data |-> defaultState, errors |-> NoErrors, auto_invalid |-> FALSE]

\* useValidator's setData: the validator takes data as its input and derives
\* the per-field error lists and the aggregate flag from the schema
setData(data, card_type, date) ==
    LET errs == schema(data, card_type, date)
    IN [data |-> data, errors |-> errs,
        auto_invalid |-> \E f \in Fields : errs[f] # <<>>]

\* useModels' updateModel(name, value)
updateModel(m, name, value) == [m EXCEPT ![name] = value]

RECURSIVE Join(_)
Join(msgs) ==
    IF msgs = <<>> THEN ""
    ELSE IF Len(msgs) = 1 THEN msgs[1]
    ELSE msgs[1] \o "," \o Join(Tail(msgs))

\* getErrors(field): the field's messages joined by commas
getErrors(s, field) == Join(s.errors[field])

\* styled CardType: opacity 1 when active, 0.5 otherwise
CardType(active) == [opacity |-> IF active THEN "1" ELSE "0.5"]

\* styled PayButton: the disabled attribute is the disabled prop
PayButton(disabled) == [disabled |-> disabled]

\* A render whose pay button ignores the loading prop
Render_ignoresLoading(m, s, l) ==
    [labelError |-> [f \in {"email", "card_number"} |-> getErrors(s, f) # ""],
     errorMessage |-> [f \in Fields |-> getErrors(s, f)],
     value |-> [f \in Fields |-> m[f]],
     visa |-> CardType(m.card_type = "visa"),
     mastercard |-> CardType(m.card_type = "mastercard"),
     schemaCardType |-> m.card_type,
     payButton |-> PayButton(s.auto_invalid)]

\* A render whose mastercard icon tests for visa
Render_mastercardTestsVisa(m, s, l) ==
    [labelError |-> [f \in {"email", "card_number"} |-> getErrors(s, f) # ""],
     errorMessage |-> [f \in Fields |-> getErrors(s, f)],
     value |-> [f \in Fields |-> m[f]],
     visa |-> CardType(m.card_type = "visa"),
     mastercard |-> CardType(m.card_type = "visa"),
     schemaCardType |-> m.card_type,
     payButton |-> PayButton(s.auto_invalid \/ l)]

\* The component's render
Render(m, s, l) ==
    [labelError |-> [f \in {"email", "card_number"} |-> getErrors(s, f) # ""],
     errorMessage |-> [f \in Fields |-> getErrors(s, f)],
     value |-> [f \in Fields |-> m[f]],
     visa |-> CardType(m.card_type = "visa"),
     mastercard |-> CardType(m.card_type = "mastercard"),
     schemaCardType |-> m.card_type,
     payButton |-> PayButton(s.auto_invalid \/ l)]

NoEvent == [type |-> "none", defaultPrevented |-> FALSE, onSuccess |-> <<>>]

ChangeEvent == [type |-> "change", defaultPrevented |-> FALSE, onSuccess |-> <<>>]

\* ------------------------------------------------------------------------
\* Inputs
\* ------------------------------------------------------------------------
\* "a@b.c", "ab"
EmailInputs ==
    {<<"a", "@", "b", ".", "c">>,
     <<"a", "b">>}

\* "", a valid visa, a visa failing the Luhn sum, a valid mastercard,
\* a valid amex, an amex failing the Luhn sum, a valid visa typed with separators
CardNumberInputs ==
    {<<>>,
     <<"4", "2", "4", "2", "4", "2", "4", "2", "4", "2", "4", "2", "4", "2", "4", "2">>,
     <<"4", "2", "4", "2", "4", "2", "4", "2", "4", "2", "4", "2", "4", "2", "4", "1">>,
     <<"5", "5", "5", "5", "5", "5", "5", "5", "5", "5", "5", "5", "4", "4", "4", "4">>,
     <<"3", "7", "8", "2", "8", "2", "2", "4", "6", "3", "1", "0", "0", "0", "5">>,
     <<"3", "7", "8", "2", "8", "2", "2", "4", "6", "3", "1", "0", "0", "0", "6">>,
     <<"4", "2", "4", "2", "-", "4", "2", "4", "2", " ", "4", "2", "4", "2", "-", "4", "2", "4", "2">>}

\* "13/30", "01/30", "12/30", "12/", "06/20"
CardExpireInputs ==
    {<<"1", "3", "/", "3", "0">>,
     <<"0", "1", "/", "3", "0">>,
     <<"1", "2", "/", "3", "0">>,
     <<"1", "2", "/">>,
     <<"0", "6", "/", "2", "0">>}

\* "12", "123", "1234", "12a"
CvvInputs ==
    {<<"1", "2">>,
     <<"1", "2", "3">>,
     <<"1", "2", "3", "4">>,
     <<"1", "2", "a">>}

\* The dates on which the form is used
NowChoices == {[month |-> 6, year |-> 2026], [month |-> 12, year |-> 2029]}

\* ------------------------------------------------------------------------
\* Operations
\* ------------------------------------------------------------------------
Init ==
    /\ models = defaultState
    /\ state = initialValidatorState
    /\ loading \in BOOLEAN
    /\ effectPending = TRUE
    /\ rendered = Render(models, state, loading)
    /\ event = NoEvent
    /\ lastRaw = null
    /\ now \in NowChoices

\* A change after which no sync effect is scheduled
Changed_noEffect(newModels) ==
    /\ ~effectPending
    /\ models' = newModels
    /\ effectPending' = FALSE
    /\ rendered' = Render(newModels, state, loading)
    /\ event' = ChangeEvent
    /\ UNCHANGED <<state, loading, now>>

\* A change handler has written newModels: the component renders again with
\* the validator state it had, and the sync effect is scheduled
Changed(newModels) ==
    /\ ~effectPending
    /\ models' = newModels
    /\ effectPending' = TRUE
    /\ rendered' = Render(newModels, state, loading)
    /\ event' = ChangeEvent
    /\ UNCHANGED <<state, loading, now>>

\* register.input({name: "email"})
ChangeEmail(raw) ==
    /\ Changed(updateModel(models, "email", raw))
    /\ UNCHANGED lastRaw

\* formatter.cardNumber storing whatever brand was detected
cardNumber_anyBrand(m, raw) ==
    LET value == formatCardNumber(raw)
        pct == parseCardType(value)
    IN updateModel(updateModel(m, "card_type", pct), "card_number", value)

\* formatter.cardNumber
cardNumber(m, raw) ==
    LET value == formatCardNumber(raw)
        pct == parseCardType(value)
        cardType == IF pct = "visa" THEN "visa"
                    ELSE IF pct = "mastercard" THEN "mastercard"
                    ELSE nullType
    IN updateModel(updateModel(m, "card_type", cardType), "card_number", value)

ChangeCardNumber(raw) ==
    /\ Changed(cardNumber(models, raw))
    /\ lastRaw' = raw

\* formatter.cardExpire
cardExpire(m, raw) ==
    LET value == formatCardExpiry(raw)
    IN updateModel(m, "card_expire", value)

ChangeCardExpire(raw) ==
    /\ Changed(cardExpire(models, raw))
    /\ UNCHANGED lastRaw

\* register.input({name: "cvv"})
ChangeCvv(raw) ==
    /\ Changed(updateModel(models, "cvv", raw))
    /\ UNCHANGED lastRaw

\* A sync validating with the brand of the snapshot pushed before
SyncEffect_staleBrand ==
    /\ effectPending
    /\ state' = setData(models, state.data.card_type, now)
    /\ effectPending' = FALSE
    /\ rendered' = Render(models, state', loading)
    /\ event' = NoEvent
    /\ UNCHANGED <<models, loading, lastRaw, now>>

\* useEffect(() => setData(models), [models]), run after the render that
\* reflects the write; the validation uses the schema of that render
SyncEffect ==
    /\ effectPending
    /\ state' = setData(models, rendered.schemaCardType, now)
    /\ effectPending' = FALSE
    /\ rendered' = Render(models, state', loading)
    /\ event' = NoEvent
    /\ UNCHANGED <<models, loading, lastRaw, now>>

\* The parent renders the form with another loading prop
SetLoading(l) ==
    /\ ~effectPending
    /\ l # loading
    /\ loading' = l
    /\ rendered' = Render(models, state, l)
    /\ event' = NoEvent
    /\ UNCHANGED <<models, state, effectPending, lastRaw, now>>

\* onSubmit: e.preventDefault(); onSuccess(state.$data)
\* onSubmit passing the raw FieldValues
onSubmit_rawValues(m, s) ==
    [type |-> "submit", defaultPrevented |-> TRUE, onSuccess |-> <<m>>]

onSubmit(m, s) ==
    [type |-> "submit", defaultPrevented |-> TRUE, onSuccess |-> <<s.data>>]

Submit ==
    /\ event' = onSubmit(models, state)
    /\ UNCHANGED <<models, state, loading, effectPending, rendered, lastRaw, now>>

Next ==
    \/ \E raw \in EmailInputs : ChangeEmail(raw)
    \/ \E raw \in CardNumberInputs : ChangeCardNumber(raw)
    \/ \E raw \in CardExpireInputs : ChangeCardExpire(raw)
    \/ \E raw \in CvvInputs : ChangeCvv(raw)
    \/ SyncEffect
    \/ \E l \in BOOLEAN : SetLoading(l)
    \/ Submit

Spec == Init /\ [][Next]_vars

\* The step in which the scheduled effect runs: SyncEffect is the only action
\* that clears effectPending, and it is enabled exactly when effectPending
EffectRuns == effectPending /\ effectPending' = FALSE

\* React runs every effect it has scheduled
FairSpec == Spec /\ WF_effectPending(EffectRuns)

\* ------------------------------------------------------------------------
\* Properties
\* ------------------------------------------------------------------------
Has(msgs, m) == \E i \in DOMAIN msgs : msgs[i] = m

IsText(v) == v # null /\ v # <<>>

AllValid == \A f \in Fields : IsText(state.data[f]) /\ state.errors[f] = <<>>

Active(icon) == icon.opacity = "1"

\* C1: a submit event has its default prevented and calls onSuccess exactly
\* once, with the validator's data snapshot of that moment; the handler runs
\* in every state, valid or not.
C1_SubmitCallsOnSuccessOnce ==
    /\ ENABLED Submit
    /\ event.type = "submit" =>
          /\ event.defaultPrevented
          /\ Len(event.onSuccess) = 1
          /\ event.onSuccess[1] = state.data

C1_Witness ==
    /\ event.type = "submit"
    /\ AllValid
    /\ ~state.auto_invalid
    /\ event.onSuccess = <<state.data>>

\* C2: the pay button is disabled exactly when the validator's aggregate
\* invalid flag or the loading prop is set; it is enabled exactly when no field
\* has an error and loading is false.
C2_DisabledIsInvalidOrLoading ==
    /\ rendered.payButton.disabled = (state.auto_invalid \/ loading)
    /\ ~rendered.payButton.disabled
         <=> ((\A f \in Fields : state.errors[f] = <<>>) /\ ~loading)

C2_Witness ==
    /\ AllValid
    /\ loading
    /\ rendered.payButton.disabled

\* C3: card_number is the formatted last raw card-number input and card_type
\* the brand detected from it, visa, mastercard or null, whatever other
\* fields changed since.
DetectedBrand(value) ==
    LET b == parseCardType(value)
    IN IF b \in {"visa", "mastercard"} THEN b ELSE nullType

C3_CardTypeFollowsCardNumber ==
    IF lastRaw = null
    THEN models.card_number = null /\ models.card_type = nullType
    ELSE /\ models.card_number = formatCardNumber(lastRaw)
         /\ models.card_type = DetectedBrand(formatCardNumber(lastRaw))

C3_Witness ==
    /\ lastRaw = <<"3", "7", "8", "2", "8", "2", "2", "4", "6", "3", "1", "0", "0", "0", "5">>
    /\ models.card_number = <<"3", "7", "8", "2", " ", "8", "2", "2", "4", "6", "3", " ", "1", "0", "0", "0", "5">>
    /\ models.card_type = nullType
    /\ IsText(models.cvv) /\ IsText(models.email) /\ IsText(models.card_expire)

\* C4: a non-empty card number failing the validity check gets "Must be a valid
\* card" whatever its brand; one passing it with a brand other than visa and
\* mastercard gets "Must be a visa or master"; one passing it with such a brand
\* gets no error.
C4_CardNumberVerdict ==
    IsText(state.data.card_number) =>
        LET v == state.data.card_number
            e == state.errors.card_number
        IN IF ~validateCardNumber(v) THEN e = <<"Must be a valid card">>
           ELSE IF DetectedBrand(v) = nullType THEN e = <<"Must be a visa or master">>
           ELSE e = <<>>

C4_Witness ==
    /\ state.data.card_number = <<"3", "7", "8", "2", " ", "8", "2", "2", "4", "6", "3", " ", "1", "0", "0", "0", "6">>
    /\ state.errors.card_number = <<"Must be a valid card">>
    /\ state.data.card_type = nullType

\* C5: a non-empty cvv whose length is not 3 gets "Maximum 3 digits" for every
\* brand, whether or not the CVC check before it failed.
C5_CvvLengthMessage ==
    (IsText(state.data.cvv) /\ Len(state.data.cvv) # 3) =>
        Has(state.errors.cvv, "Maximum 3 digits")

C5_Witness ==
    /\ state.data.cvv = <<"1", "2">>
    /\ state.data.card_type = "visa"
    /\ state.errors.cvv = <<"Invalid cvc", "Maximum 3 digits">>

\* C6: a non-empty expiry gets "Invalid expire month" when its month is above
\* 12 or below the current month; otherwise "Invalid expire year" when its year
\* is not a number or below the current year; otherwise no error.  "13/30"
\* gets the month message.
C6_ExpiryVerdict ==
    IsText(state.data.card_expire) =>
        LET my == parseCardExpiry(state.data.card_expire, now.year)
            e == state.errors.card_expire
            badMonth == ~my.month.nan /\ (my.month.val > 12 \/ my.month.val < now.month)
            badYear == my.year.nan \/ my.year.val < now.year
        IN /\ IF badMonth THEN e = <<"Invalid expire month">>
              ELSE IF badYear THEN e = <<"Invalid expire year">>
              ELSE e = <<>>
           /\ state.data.card_expire = <<"1", "3", " ", "/", " ", "3", "0">>
                => e = <<"Invalid expire month">>

C6_Witness ==
    /\ state.data.card_expire = <<"1", "3", " ", "/", " ", "3", "0">>
    /\ state.errors.card_expire = <<"Invalid expire month">>

\* C7: an expiry in a later year than the current one whose month is between
\* 1 and 12 but below the current month is accepted.
C7_PastMonthFutureYearAccepted ==
    IsText(state.data.card_expire) =>
        LET my == parseCardExpiry(state.data.card_expire, now.year)
        IN (/\ ~my.year.nan /\ my.year.val > now.year
            /\ ~my.month.nan /\ my.month.val >= 1 /\ my.month.val <= 12
            /\ my.month.val < now.month)
           => state.errors.card_expire = <<>>

\* C8: the visa icon is active exactly when card_type is visa and the
\* mastercard icon exactly when it is mastercard, never both; a card number of
\* a recognized brand activates that brand's icon, an empty one and the mount
\* leave both inactive.
C8_ActiveIconIsCardType ==
    /\ Active(rendered.visa) <=> models.card_type = "visa"
    /\ Active(rendered.mastercard) <=> models.card_type = "mastercard"
    /\ ~(Active(rendered.visa) /\ Active(rendered.mastercard))
    /\ (lastRaw = null \/ lastRaw = <<>>)
         => (~Active(rendered.visa) /\ ~Active(rendered.mastercard))
    /\ (lastRaw # null /\ parseCardType(formatCardNumber(lastRaw)) = "visa")
         => Active(rendered.visa)
    /\ (lastRaw # null /\ parseCardType(formatCardNumber(lastRaw)) = "mastercard")
         => Active(rendered.mastercard)

C8_Witness ==
    /\ lastRaw = <<>>
    /\ state.data.card_type = "mastercard"
    /\ ~Active(rendered.visa) /\ ~Active(rendered.mastercard)

\* C9: a write to FieldValues leaves the validator as it was and schedules the
\* sync; only the effect changes the validator, pushing the whole snapshot;
\* while the sync is pending the validator lags by one change batch; the sync
\* always follows, and once it ran the validator's data and errors are those
\* of the current FieldValues.
Batches == {{"email"}, {"card_number", "card_type"}, {"card_expire"}, {"cvv"}}

Differing == {f \in DOMAIN models : models[f] # state.data[f]}

C9_SyncFollowsEveryChange ==
    /\ [][models' # models => (state' = state /\ effectPending')]_vars
    /\ [][state' # state =>
            (effectPending /\ ~effectPending' /\ models' = models
               /\ state'.data = models)]_vars
    /\ [](effectPending => \E b \in Batches : Differing \subseteq b)
    /\ [](~effectPending =>
            /\ state.data = models
            /\ state.errors = schema(models, models.card_type, now)
            /\ \A f \in Fields : rendered.errorMessage[f] = Join(state.errors[f]))
    /\ (effectPending ~> ~effectPending)
    /\ []<>(state.data = models)

C9_Witness ==
    /\ effectPending
    /\ state.data.cvv = <<"1", "2">>
    /\ models.cvv = <<"1", "2", "3">>
    /\ state.errors.cvv # <<>>

\* C10: after a sync the cvv has "Invalid cvc" exactly when the CVC check of
\* the cvv against the current card_type fails, and card_number has "Must be a
\* visa or master" exactly when it passes the validity check and that same
\* card_type is null.
C10_CvvCheckedAgainstCurrentBrand ==
    ~effectPending =>
        /\ IsText(state.data.cvv) =>
             (Has(state.errors.cvv, "Invalid cvc")
                <=> ~validateCardCVC(state.data.cvv, models.card_type))
        /\ IsText(state.data.card_number) =>
             (Has(state.errors.card_number, "Must be a visa or master")
                <=> (validateCardNumber(state.data.card_number)
                       /\ models.card_type = nullType))

C10_Witness ==
    /\ ~effectPending
    /\ state.data.cvv = <<"1", "2", "3", "4">>
    /\ lastRaw = <<"4", "2", "4", "2", "4", "2", "4", "2", "4", "2", "4", "2", "4", "2", "4", "2">>
    /\ models.card_type = "visa"
    /\ Has(state.errors.cvv, "Invalid cvc")

====
